---- MODULE Spec2Model ----
(***************************************************************************)
(* Math-Expression-Formatter: the regex rewriting pipeline processToLatex, *)
(* the detector detectPatterns (src/utils/mathProcessor.ts) and the App    *)
(* component's inlined copy processInput with its input-change effect.     *)
(*                                                                         *)
(* A string is a sequence of UTF-16 code units (every character the source *)
(* names lies in the basic plane, so one unit per character):              *)
(*   "x_1" is <<120, 95, 49>>,  "μν" is <<956, 957>>.                      *)
(* Frequent units: 92 \  95 _  94 ^  47 /  123 {  125 }  46 .  32 space    *)
(*   10 line feed  71 G  84 T  103 g  99 c  69 E  66 B                     *)
(*   923 Λ  936 Ψ  968 ψ  956 μ  957 ν  960 π  295 ħ  8711 ∇  8706 ∂      *)
(*   215 ×  181 µ (micro sign)  937 Ω                                      *)
(***************************************************************************)
EXTENDS Integers, Sequences, FiniteSets, TLC

VARIABLES
    input,          \* the argument handed to the utility functions
    stage,          \* which utility call has completed on input
    latex,          \* processToLatex(input), once called
    relatex,        \* processToLatex applied to its own output, once called
    inlined,        \* processInput(input) of the App copy, once called
    patterns,       \* detectPatterns(input), once called
    inputText,      \* App state: useState('')
    latexOutput,    \* App state: useState('')
    mathmlOutput,   \* App state: useState('')
    effectPending   \* the [inputText] effect is scheduled and has not run yet

vars == <<input, stage, latex, relatex, inlined, patterns,
          inputText, latexOutput, mathmlOutput, effectPending>>

-----------------------------------------------------------------------------
(* Character classes of the regular expressions (no u flag: ASCII classes). *)

\* [A-Za-z]
IsLetter(c) == (c >= 65 /\ c <= 90) \/ (c >= 97 /\ c <= 122)

\* [A-Za-z0-9]
IsAlnum(c) == IsLetter(c) \/ (c >= 48 /\ c <= 57)

\* \w, the word characters that decide \b
IsWordChar(c) == IsAlnum(c) \/ c = 95

\* \s: ECMAScript WhiteSpace and LineTerminator
IsSpace(c) ==
    \/ (c >= 9 /\ c <= 13)
    \/ c \in {32, 160, 5760, 8232, 8233, 8239, 8287, 12288, 65279}
    \/ (c >= 8192 /\ c <= 8202)

\* the characters '.' does not match (no s flag)
IsLineTerminator(c) == c \in {10, 13, 8232, 8233}

\* Canonicalize of an i-flag regex without the u flag: the upper-case mapping
\* of one code unit, kept only when it is one unit and does not turn a
\* non-ASCII unit into an ASCII one.
Canonicalize(c) ==
    IF c >= 97 /\ c <= 122 THEN c - 32
    ELSE IF c = 962 THEN 931                     \* final sigma ς -> Σ
    ELSE IF c >= 945 /\ c <= 969 THEN c - 32     \* α..ω -> Α..Ω
    ELSE IF c = 181 THEN 924                     \* micro sign µ -> Μ
    ELSE IF c = 976 THEN 914                     \* ϐ -> Β
    ELSE IF c = 977 THEN 920                     \* ϑ -> Θ
    ELSE IF c = 981 THEN 934                     \* ϕ -> Φ
    ELSE IF c = 982 THEN 928                     \* ϖ -> Π
    ELSE IF c = 1008 THEN 922                    \* ϰ -> Κ
    ELSE IF c = 1009 THEN 929                    \* ϱ -> Ρ
    ELSE IF c = 1013 THEN 917                    \* ϵ -> Ε
    ELSE IF c = 837 THEN 921                     \* combining ypogegrammeni -> Ι
    ELSE IF c = 8126 THEN 921                    \* prosgegrammeni -> Ι
    ELSE c

-----------------------------------------------------------------------------
(* String primitives. *)

\* the literal lit occurs in s at index i
StartsWithAt(s, i, lit) ==
    /\ i >= 1
    /\ i + Len(lit) - 1 <= Len(s)
    /\ \A k \in 1..Len(lit) : s[i + k - 1] = lit[k]

\* String.prototype.includes
Includes(s, lit) == \E i \in 1..(Len(s) + 1) : StartsWithAt(s, i, lit)

\* the least element of a non-empty set of indices
Least(S) == CHOOSE j \in S : \A k \in S : j <= k

\* the least element, 0 for the empty set
LeastOrZero(S) == IF S = {} THEN 0 ELSE Least(S)

\* first index at or after i that ends the maximal (greedy) run [A-Za-z0-9]*
AlnumRunEnd(s, i) ==
    Least({j \in i..(Len(s) + 1) : j > Len(s) \/ ~IsAlnum(s[j])})

\* first index at or after i that ends the maximal (greedy) run \s*
SkipSpaces(s, i) ==
    Least({j \in i..(Len(s) + 1) : j > Len(s) \/ ~IsSpace(s[j])})

\* an optional single character c? at index i (greedy)
OptChar(s, i, c) == IF i <= Len(s) /\ s[i] = c THEN i + 1 ELSE i

\* \b at the position before index i
WordBoundary(s, i) ==
    (i > 1 /\ i - 1 <= Len(s) /\ IsWordChar(s[i - 1]))
        # (i >= 1 /\ i <= Len(s) /\ IsWordChar(s[i]))

-----------------------------------------------------------------------------
(* The Greek-letter table, in insertion order (Object.entries order). *)

greekLetters ==
  << [name |-> <<97, 108, 112, 104, 97>>, symbol |-> 945],              \* alpha α
     [name |-> <<98, 101, 116, 97>>, symbol |-> 946],                   \* beta β
     [name |-> <<103, 97, 109, 109, 97>>, symbol |-> 947],              \* gamma γ
     [name |-> <<100, 101, 108, 116, 97>>, symbol |-> 948],             \* delta δ
     [name |-> <<101, 112, 115, 105, 108, 111, 110>>, symbol |-> 949],  \* epsilon ε
     [name |-> <<122, 101, 116, 97>>, symbol |-> 950],                  \* zeta ζ
     [name |-> <<101, 116, 97>>, symbol |-> 951],                       \* eta η
     [name |-> <<116, 104, 101, 116, 97>>, symbol |-> 952],             \* theta θ
     [name |-> <<105, 111, 116, 97>>, symbol |-> 953],                  \* iota ι
     [name |-> <<107, 97, 112, 112, 97>>, symbol |-> 954],              \* kappa κ
     [name |-> <<108, 97, 109, 98, 100, 97>>, symbol |-> 955],          \* lambda λ
     [name |-> <<109, 117>>, symbol |-> 956],                           \* mu μ
     [name |-> <<110, 117>>, symbol |-> 957],                           \* nu ν
     [name |-> <<120, 105>>, symbol |-> 958],                           \* xi ξ
     [name |-> <<111, 109, 105, 99, 114, 111, 110>>, symbol |-> 959],   \* omicron ο
     [name |-> <<112, 105>>, symbol |-> 960],                           \* pi π
     [name |-> <<114, 104, 111>>, symbol |-> 961],                      \* rho ρ
     [name |-> <<115, 105, 103, 109, 97>>, symbol |-> 963],             \* sigma σ
     [name |-> <<116, 97, 117>>, symbol |-> 964],                       \* tau τ
     [name |-> <<117, 112, 115, 105, 108, 111, 110>>, symbol |-> 965],  \* upsilon υ
     [name |-> <<112, 104, 105>>, symbol |-> 966],                      \* phi φ
     [name |-> <<99, 104, 105>>, symbol |-> 967],                       \* chi χ
     [name |-> <<112, 115, 105>>, symbol |-> 968],                      \* psi ψ
     [name |-> <<111, 109, 101, 103, 97>>, symbol |-> 969] >>           \* omega ω

-----------------------------------------------------------------------------
(* The regular expressions.  Each XMatchEnd(s, i) is the index just after  *)
(* the match of the expression attempted at index i, or 0 when it does not *)
(* match there; no expression of the program matches the empty string.     *)

\* /([A-Za-z])_([A-Za-z0-9]+)/
SubscriptMatchEnd(s, i) ==
    IF /\ i + 2 <= Len(s)
       /\ IsLetter(s[i])
       /\ s[i + 1] = 95
       /\ IsAlnum(s[i + 2])
    THEN AlnumRunEnd(s, i + 2)
    ELSE 0

\* a variant of the subscript replacement, '{$1_$2}': it keeps letter, '_' and
\* subscript adjacent, so the expression matches its own output again
SubscriptReplacementGrouped(s, i, e) ==
    <<123, s[i], 95>> \o SubSeq(s, i + 2, e - 1) \o <<125>>

\* '$1_{$2}' for the match s[i..e-1]
SubscriptReplacement(s, i, e) ==
    <<s[i], 95, 123>> \o SubSeq(s, i + 2, e - 1) \o <<125>>

\* /([A-Za-z0-9])(\^)([A-Za-z0-9]+)/
SuperscriptMatchEnd(s, i) ==
    IF /\ i + 2 <= Len(s)
       /\ IsAlnum(s[i])
       /\ s[i + 1] = 94
       /\ IsAlnum(s[i + 2])
    THEN AlnumRunEnd(s, i + 2)
    ELSE 0

\* '$1^{$3}'
SuperscriptReplacement(s, i, e) ==
    <<s[i], 94, 123>> \o SubSeq(s, i + 2, e - 1) \o <<125>>

\* the rest of the fraction expression once the numerator run ends at slash
DenominatorEnd(s, slash) ==
    IF /\ slash + 1 <= Len(s)
       /\ s[slash] = 47
       /\ IsAlnum(s[slash + 1])
    THEN AlnumRunEnd(s, slash + 1)
    ELSE 0

\* /([A-Za-z0-9]+)\/([A-Za-z0-9]+)/ : the numerator run is greedy, and a
\* shorter numerator would be followed by an alphanumeric, never by '/'
FractionMatchEnd(s, i) ==
    IF i <= Len(s) /\ IsAlnum(s[i])
    THEN DenominatorEnd(s, AlnumRunEnd(s, i))
    ELSE 0

\* '\\frac{$1}{$2}' with $1 = s[i..slash-1] and $2 = s[slash+1..e-1]
FractionParts(s, i, slash, e) ==
    <<92, 102, 114, 97, 99, 123>> \o SubSeq(s, i, slash - 1)
        \o <<125, 123>> \o SubSeq(s, slash + 1, e - 1) \o <<125>>

FractionReplacement(s, i, e) == FractionParts(s, i, AlnumRunEnd(s, i), e)

\* the name of a table entry at index i between two word boundaries, letter by
\* letter after Canonicalize (the first letter first, which decides most indices)
NameMatchesAt(s, i, name) ==
    /\ Canonicalize(s[i]) = Canonicalize(name[1])
    /\ i + Len(name) - 1 <= Len(s)
    /\ WordBoundary(s, i)
    /\ \A k \in 2..Len(name) : Canonicalize(s[i + k - 1]) = Canonicalize(name[k])
    /\ WordBoundary(s, i + Len(name))

\* new RegExp(`\\b${name}\\b|${symbol}`, 'gi') for one table entry
GreekMatchEnd(s, i, entry) ==
    IF NameMatchesAt(s, i, entry.name) THEN i + Len(entry.name)
    ELSE IF Canonicalize(s[i]) = Canonicalize(entry.symbol) THEN i + 1
    ELSE 0

\* `\\${name}`
GreekReplacement(entry) == <<92>> \o entry.name

\* μν}? at index j
IndexEnd(s, j) ==
    IF StartsWithAt(s, j, <<956, 957>>) THEN OptChar(s, j + 2, 125) ELSE 0

\* /X\s*_?{?μν}?/ for a literal head X (G, Λg, T)
IndexedMatchEnd(s, i, head) ==
    IF StartsWithAt(s, i, head)
    THEN IndexEnd(s, OptChar(s, OptChar(s, SkipSpaces(s, i + Len(head)), 95), 123))
    ELSE 0

\* 4}? at index j
FourEnd(s, j) ==
    IF j <= Len(s) /\ s[j] = 52 THEN OptChar(s, j + 1, 125) ELSE 0

\* /c\s*\^?{?4}?/
CFourMatchEnd(s, i) ==
    IF i <= Len(s) /\ s[i] = 99
    THEN FourEnd(s, OptChar(s, OptChar(s, SkipSpaces(s, i + 1), 94), 123))
    ELSE 0

\* a literal pattern such as /8πG/, /iħ/, /∂Ψ\/∂t/, /∇\^2/
LiteralMatchEnd(s, i, lit) ==
    IF StartsWithAt(s, i, lit) THEN i + Len(lit) ELSE 0

\* the single character c at index j: the index after it, 0 when it is not there
CharEnd(s, j, c) == IF j >= 1 /\ j <= Len(s) /\ s[j] = c THEN j + 1 ELSE 0

\* \s* then the character c, from index j on (j = 0: the part before failed)
SpacesThenChar(s, j, c) ==
    IF j = 0 THEN 0 ELSE CharEnd(s, SkipSpaces(s, j), c)

\* /∇\s*\.\s*E/ and its three siblings: op is '.' or '×', field is E or B
NablaMatchEnd(s, i, op, field) ==
    SpacesThenChar(s, SpacesThenChar(s, CharEnd(s, i, 8711), op), field)

-----------------------------------------------------------------------------
(* String.prototype.replace with a g-flag regex: matches are found left to *)
(* right in the string as it was when the call started, never overlapping. *)
(* A rule names the expression and carries its replacement.                *)

MatchEnd(rule, s, i) ==
    CASE rule.re = "subscript"   -> SubscriptMatchEnd(s, i)
      [] rule.re = "superscript" -> SuperscriptMatchEnd(s, i)
      [] rule.re = "fraction"    -> FractionMatchEnd(s, i)
      [] rule.re = "greek"       -> GreekMatchEnd(s, i, rule.entry)
      [] rule.re = "indexed"     -> IndexedMatchEnd(s, i, rule.head)
      [] rule.re = "cfour"       -> CFourMatchEnd(s, i)
      [] rule.re = "literal"     -> LiteralMatchEnd(s, i, rule.lit)
      [] rule.re = "nabla"       -> NablaMatchEnd(s, i, rule.op, rule.field)

Replacement(rule, s, i, e) ==
    CASE rule.re = "subscript"   -> SubscriptReplacement(s, i, e)
      [] rule.re = "superscript" -> SuperscriptReplacement(s, i, e)
      [] rule.re = "fraction"    -> FractionReplacement(s, i, e)
      [] rule.re = "greek"       -> GreekReplacement(rule.entry)
      [] OTHER                   -> rule.to

\* the start of the leftmost match at or after index i, 0 when there is none
NextMatch(rule, s, i) ==
    LeastOrZero({j \in i..Len(s) : MatchEnd(rule, s, j) > 0})

\* the result from index i on, acc being the result up to i
RECURSIVE ReplaceFrom(_, _, _, _)

\* the match s[m..e-1] is replaced and the scan goes on at e
ReplaceMatch(rule, s, i, acc, m, e) ==
    ReplaceFrom(rule, s, e,
        acc \o SubSeq(s, i, m - 1) \o Replacement(rule, s, m, e))

\* m is the start of the next match, 0 when nothing more matches
ReplaceAt(rule, s, i, acc, m) ==
    IF m = 0 THEN acc \o SubSeq(s, i, Len(s))
    ELSE ReplaceMatch(rule, s, i, acc, m, MatchEnd(rule, s, m))

ReplaceFrom(rule, s, i, acc) == ReplaceAt(rule, s, i, acc, NextMatch(rule, s, i))

ReplaceAll(s, rule) ==
    IF Len(s) = 0 THEN s ELSE ReplaceFrom(rule, s, 1, <<>>)

\* RegExp.prototype.test on a fresh expression: some index matches
Test(s, rule) == \E i \in 1..Len(s) : MatchEnd(rule, s, i) > 0

\* processed = processed.replace(...) for each rule of a list from rule k on,
\* each call on the result of the one before
RECURSIVE ReplaceEach(_, _, _)

\* t is the result of rule k
ReplaceRest(t, rules, k) ==
    IF Len(t) = 0 THEN t ELSE ReplaceEach(t, rules, k + 1)

ReplaceEach(s, rules, k) ==
    IF k > Len(rules) THEN s
    ELSE ReplaceRest(ReplaceAll(s, rules[k]), rules, k)

-----------------------------------------------------------------------------
(* processToLatex, pass by pass. *)

SubscriptPass(s) == ReplaceAll(s, [re |-> "subscript"])

SuperscriptPass(s) == ReplaceAll(s, [re |-> "superscript"])

FractionPass(s) == ReplaceAll(s, [re |-> "fraction"])

\* the canonical forms of the units of s
Canonicals(s) == {Canonicalize(s[i]) : i \in 1..Len(s)}

\* an entry's expression can match only in a string holding a unit that
\* canonicalizes like its glyph or like the first letter of its name
CanMatch(entry, present) ==
    \/ Canonicalize(entry.symbol) \in present
    \/ Canonicalize(entry.name[1]) \in present

\* the forEach over Object.entries(greekLetters), from entry k on; present is
\* Canonicals(s), kept to skip the entries that cannot match
RECURSIVE GreekFrom(_, _, _)

\* t is the result of entry k on s
GreekRest(s, k, present, t) ==
    IF t = s THEN GreekFrom(s, k + 1, present)
    ELSE GreekFrom(t, k + 1, Canonicals(t))

GreekFrom(s, k, present) ==
    IF k > Len(greekLetters) THEN s
    ELSE IF ~CanMatch(greekLetters[k], present) THEN GreekFrom(s, k + 1, present)
    ELSE GreekRest(s, k, present,
             ReplaceAll(s, [re |-> "greek", entry |-> greekLetters[k]]))

GreekPass(s) == GreekFrom(s, 1, Canonicals(s))

\* Einstein's field equations
EinsteinGuard(s) ==
    Includes(s, <<71>>) /\ Includes(s, <<956, 957>>) /\ Includes(s, <<923>>)

\* the five replace calls of the block, in order
einsteinRules ==
    << [re |-> "indexed", head |-> <<71>>,
        to |-> <<71, 95, 123, 92, 109, 117, 92, 110, 117, 125>>],
       [re |-> "indexed", head |-> <<923, 103>>,
        to |-> <<92, 76, 97, 109, 98, 100, 97, 32, 103, 95, 123,
                 92, 109, 117, 92, 110, 117, 125>>],
       [re |-> "indexed", head |-> <<84>>,
        to |-> <<84, 95, 123, 92, 109, 117, 92, 110, 117, 125>>],
       [re |-> "cfour", to |-> <<99, 94, 123, 52, 125>>],
       [re |-> "literal", lit |-> <<56, 960, 71>>,
        to |-> <<56, 92, 112, 105, 32, 71>>] >>

\* the body of the block: its replace calls one after the other
EinsteinRewrites(s) == ReplaceEach(s, einsteinRules, 1)

EinsteinBlock(s) == IF EinsteinGuard(s) THEN EinsteinRewrites(s) ELSE s

\* Schrödinger equation
SchrodingerGuard(s) == Includes(s, <<936>>) /\ Includes(s, <<295>>)

schrodingerRules ==
    << [re |-> "literal", lit |-> <<105, 295>>,
        to |-> <<105, 92, 104, 98, 97, 114>>],
       [re |-> "literal", lit |-> <<8706, 936, 47, 8706, 116>>,
        to |-> <<92, 102, 114, 97, 99, 123, 92, 112, 97, 114, 116,
                 105, 97, 108, 92, 80, 115, 105, 125, 123, 92, 112,
                 97, 114, 116, 105, 97, 108, 32, 116, 125>>],
       [re |-> "literal", lit |-> <<8711, 94, 50>>,
        to |-> <<92, 110, 97, 98, 108, 97, 94, 123, 50, 125>>] >>

\* the body of the block: its replace calls one after the other
SchrodingerRewrites(s) == ReplaceEach(s, schrodingerRules, 1)

SchrodingerBlock(s) == IF SchrodingerGuard(s) THEN SchrodingerRewrites(s) ELSE s

\* Maxwell's equations
MaxwellGuard(s) ==
    Includes(s, <<8711>>) /\ (Includes(s, <<69>>) \/ Includes(s, <<66>>))

maxwellRules ==
    << [re |-> "nabla", op |-> 46, field |-> 69,
        to |-> <<92, 110, 97, 98, 108, 97, 32, 92, 99, 100, 111, 116,
                 32, 92, 118, 101, 99, 123, 69, 125>>],
       [re |-> "nabla", op |-> 46, field |-> 66,
        to |-> <<92, 110, 97, 98, 108, 97, 32, 92, 99, 100, 111, 116,
                 32, 92, 118, 101, 99, 123, 66, 125>>],
       [re |-> "nabla", op |-> 215, field |-> 69,
        to |-> <<92, 110, 97, 98, 108, 97, 32, 92, 116, 105, 109, 101,
                 115, 32, 92, 118, 101, 99, 123, 69, 125>>],
       [re |-> "nabla", op |-> 215, field |-> 66,
        to |-> <<92, 110, 97, 98, 108, 97, 32, 92, 116, 105, 109, 101,
                 115, 32, 92, 118, 101, 99, 123, 66, 125>>] >>

\* the body of the block: its replace calls one after the other
MaxwellRewrites(s) == ReplaceEach(s, maxwellRules, 1)

MaxwellBlock(s) == IF MaxwellGuard(s) THEN MaxwellRewrites(s) ELSE s

\* one statement group of the function body
ApplyPass(pass, s) ==
    CASE pass = "subscript"   -> SubscriptPass(s)
      [] pass = "superscript" -> SuperscriptPass(s)
      [] pass = "fraction"    -> FractionPass(s)
      [] pass = "greek"       -> GreekPass(s)
      [] pass = "einstein"    -> EinsteinBlock(s)
      [] pass = "schrodinger" -> SchrodingerBlock(s)
      [] pass = "maxwell"     -> MaxwellBlock(s)

\* the statement groups from the k-th on, each on the result of the one before
RECURSIVE RunPasses(_, _, _)

\* t is the result of group k
RunRest(t, passes, k) ==
    IF Len(t) = 0 THEN t ELSE RunPasses(t, passes, k + 1)

RunPasses(s, passes, k) ==
    IF k > Len(passes) THEN s
    ELSE RunRest(ApplyPass(passes[k], s), passes, k)

processToLatex(s) ==
    RunPasses(s, <<"subscript", "superscript", "fraction", "greek",
                   "einstein", "schrodinger", "maxwell">>, 1)

-----------------------------------------------------------------------------
(* detectPatterns. *)

\* /[α-ωΑ-Ω]/
IsGreekLetter(c) == (c >= 945 /\ c <= 969) \/ (c >= 913 /\ c <= 937)

\* one alternative of the token tok (a set of literals of one length) at j
TokenAt(s, j, tok) == \E lit \in tok : StartsWithAt(s, j, lit)

TokenLen(tok) == Len(CHOOSE lit \in tok : TRUE)

\* the first index at or after i holding a line terminator, Len(s) + 1 if none:
\* how far a '.*' that starts at i can reach
LineEnd(s, i) ==
    Least({j \in i..(Len(s) + 1) : j > Len(s) \/ IsLineTerminator(s[j])})

\* '.*' then chain[k], '.*' then chain[k+1], ... from index i on: taking the
\* leftmost occurrence of each token loses no match, every '.*' staying
\* inside the line of i
RECURSIVE ChainFrom(_, _, _, _)

\* at holds the indices where chain[k] can start
ChainRest(s, chain, k, at) ==
    IF at = {} THEN FALSE
    ELSE ChainFrom(s, Least(at) + TokenLen(chain[k]), chain, k + 1)

ChainFrom(s, i, chain, k) ==
    IF k > Len(chain) THEN TRUE
    ELSE ChainRest(s, chain, k,
             {j \in i..LineEnd(s, i) : TokenAt(s, j, chain[k])})

\* test of /T1.*T2.* ... .*Tn/: the first token may start anywhere
TestChain(s, chain) ==
    \E j \in 1..Len(s) :
        /\ TokenAt(s, j, chain[1])
        /\ ChainFrom(s, j + TokenLen(chain[1]), chain, 2)

\* /G.*μν.*Λ.*g.*μν.*T.*μν/
einsteinChain ==
    << {<<71>>}, {<<956, 957>>}, {<<923>>}, {<<103>>}, {<<956, 957>>},
       {<<84>>}, {<<956, 957>>} >>

\* /[Ψψ].*[ħh].*∇\^2/
schrodingerChain ==
    << {<<936>>, <<968>>}, {<<295>>, <<104>>}, {<<8711, 94, 50>>} >>

\* /∇.*[EB].*∇.*[EB]/
maxwellChain ==
    << {<<8711>>}, {<<69>>, <<66>>}, {<<8711>>}, {<<69>>, <<66>>} >>

detectPatterns(s) ==
    [ hasSubscripts         |-> Test(s, [re |-> "subscript"]),
      hasSuperscripts       |-> Test(s, [re |-> "superscript"]),
      hasFractions          |-> Test(s, [re |-> "fraction"]),
      hasGreekLetters       |-> \E i \in 1..Len(s) : IsGreekLetter(s[i]),
      isEinsteinEquation    |-> TestChain(s, einsteinChain),
      isSchrodingerEquation |-> TestChain(s, schrodingerChain),
      isMaxwellEquation     |-> TestChain(s, maxwellChain) ]

-----------------------------------------------------------------------------
(* The App component: the inlined rewriter, the MathML stub. *)

processInput(s) ==
    RunPasses(s, <<"subscript", "superscript", "fraction", "greek",
                   "einstein">>, 1)

\* the template literal returned for a latex that includes 'G_{\mu\nu}'
cannedMathML ==
  << 60, 109, 97, 116, 104, 62, 10, 32, 32, 60, 109, 114, 111, 119, 62, 10,
    32, 32, 32, 32, 60, 109, 115, 117, 98, 62, 10, 32, 32, 32, 32, 32, 32,
    60, 109, 105, 62, 71, 60, 47, 109, 105, 62, 10, 32, 32, 32, 32, 32, 32,
    60, 109, 114, 111, 119, 62, 60, 109, 105, 62, 956, 60, 47, 109, 105, 62,
    60, 109, 105, 62, 957, 60, 47, 109, 105, 62, 60, 47, 109, 114, 111, 119,
    62, 10, 32, 32, 32, 32, 60, 47, 109, 115, 117, 98, 62, 10, 32, 32, 32,
    32, 60, 109, 111, 62, 43, 60, 47, 109, 111, 62, 10, 32, 32, 32, 32, 60,
    109, 115, 117, 98, 62, 10, 32, 32, 32, 32, 32, 32, 60, 109, 105, 62,
    923, 60, 47, 109, 105, 62, 60, 109, 105, 62, 103, 60, 47, 109, 105, 62,
    10, 32, 32, 32, 32, 32, 32, 60, 109, 114, 111, 119, 62, 60, 109, 105,
    62, 956, 60, 47, 109, 105, 62, 60, 109, 105, 62, 957, 60, 47, 109, 105,
    62, 60, 47, 109, 114, 111, 119, 62, 10, 32, 32, 32, 32, 60, 47, 109,
    115, 117, 98, 62, 10, 32, 32, 32, 32, 60, 109, 111, 62, 61, 60, 47, 109,
    111, 62, 10, 32, 32, 32, 32, 60, 109, 102, 114, 97, 99, 62, 10, 32, 32,
    32, 32, 32, 32, 60, 109, 115, 117, 112, 62, 60, 109, 105, 62, 99, 60,
    47, 109, 105, 62, 60, 109, 110, 62, 52, 60, 47, 109, 110, 62, 60, 47,
    109, 115, 117, 112, 62, 10, 32, 32, 32, 32, 32, 32, 60, 109, 114, 111,
    119, 62, 60, 109, 110, 62, 56, 60, 47, 109, 110, 62, 60, 109, 105, 62,
    960, 60, 47, 109, 105, 62, 60, 109, 105, 62, 71, 60, 47, 109, 105, 62,
    60, 47, 109, 114, 111, 119, 62, 10, 32, 32, 32, 32, 60, 47, 109, 102,
    114, 97, 99, 62, 10, 32, 32, 32, 32, 60, 109, 115, 117, 98, 62, 10, 32,
    32, 32, 32, 32, 32, 60, 109, 105, 62, 84, 60, 47, 109, 105, 62, 10, 32,
    32, 32, 32, 32, 32, 60, 109, 114, 111, 119, 62, 60, 109, 105, 62, 956,
    60, 47, 109, 105, 62, 60, 109, 105, 62, 957, 60, 47, 109, 105, 62, 60,
    47, 109, 114, 111, 119, 62, 10, 32, 32, 32, 32, 60, 47, 109, 115, 117,
    98, 62, 10, 32, 32, 60, 47, 109, 114, 111, 119, 62, 10, 60, 47, 109, 97,
    116, 104, 62 >>

generateMathML(l) ==
    IF Includes(l, <<71, 95, 123, 92, 109, 117, 92, 110, 117, 125>>)
    THEN cannedMathML
    ELSE <<60, 109, 97, 116, 104, 62, 60, 109, 114, 111, 119, 62>> \o l
           \o <<60, 47, 109, 114, 111, 119, 62, 60, 47, 109, 97, 116, 104, 62>>

-----------------------------------------------------------------------------
(* Inputs: every concatenation of at most n chunks of a vocabulary. *)

MaxChunks == 4

MaxStructural == 5

MaxTyped == 2

\* the words W, and each of them with one more chunk of V
Extend(W, V) == W \cup {w \o v : w \in W, v \in V}

RECURSIVE Words(_, _)
Words(V, n) == IF n = 0 THEN {<<>>} ELSE Extend(Words(V, n - 1), V)

\* x  2  _  ^  /  Ω
StructuralChunks ==
    { <<120>>,
      <<50>>,
      <<95>>,
      <<94>>,
      <<47>>,
      <<937>> }

\* alpha  ALPHA  α  beta  Pi  π  \  space  x
GreekChunks ==
    { <<97, 108, 112, 104, 97>>,
      <<65, 76, 80, 72, 65>>,
      <<945>>,
      <<98, 101, 116, 97>>,
      <<80, 105>>,
      <<960>>,
      <<92>>,
      <<32>>,
      <<120>> }

\* "G_μν + "  "Λg_μν = "  "c^4/(8πG) "  "T_μν"  line feed  "Λ"
EinsteinChunks ==
    { <<71, 95, 956, 957, 32, 43, 32>>,
      <<923, 103, 95, 956, 957, 32, 61, 32>>,
      <<99, 94, 52, 47, 40, 56, 960, 71, 41, 32>>,
      <<84, 95, 956, 957>>,
      <<10>>,
      <<923>> }

\* iħ  ∂Ψ/∂t  ∇^2  Ψ  " = "  ħ
SchrodingerChunks ==
    { <<105, 295>>,
      <<8706, 936, 47, 8706, 116>>,
      <<8711, 94, 50>>,
      <<936>>,
      <<32, 61, 32>>,
      <<295>> }

\* ∇  .  " × "  E  B  /c  _x  space
MaxwellChunks ==
    { <<8711>>,
      <<46>>,
      <<32, 215, 32>>,
      <<69>>,
      <<66>>,
      <<47, 99>>,
      <<95, 120>>,
      <<32>> }

\* x_1  a/b  α  G_{μν}
TypedChunks ==
    { <<120, 95, 49>>,
      <<97, 47, 98>>,
      <<945>>,
      <<71, 95, 123, 956, 957, 125>> }

-----------------------------------------------------------------------------
(* The utility functions, called on one input. *)

noPatterns == detectPatterns(<<>>)

appVars == <<inputText, latexOutput, mathmlOutput, effectPending>>

callVars == <<input, stage, latex, relatex, inlined, patterns>>

\* the state before any call on an input drawn from inputs
InitCalls(inputs) ==
    /\ input \in inputs
    /\ stage = "input"
    /\ latex = <<>>
    /\ relatex = <<>>
    /\ inlined = <<>>
    /\ patterns = noPatterns
    /\ inputText = <<>>
    /\ latexOutput = <<>>
    /\ mathmlOutput = <<>>
    /\ effectPending = FALSE

CallProcessToLatex ==
    /\ stage = "input"
    /\ latex' = processToLatex(input)
    /\ stage' = "rewritten"
    /\ UNCHANGED <<input, relatex, inlined, patterns, appVars>>

\* processToLatex called on its own output
CallProcessToLatexAgain ==
    /\ stage = "rewritten"
    /\ relatex' = processToLatex(latex)
    /\ stage' = "rewrittenTwice"
    /\ UNCHANGED <<input, latex, inlined, patterns, appVars>>

\* the App copy called on the same input
CallProcessInput ==
    /\ stage = "rewritten"
    /\ inlined' = processInput(input)
    /\ stage' = "inlined"
    /\ UNCHANGED <<input, latex, relatex, patterns, appVars>>

CallDetectPatterns ==
    /\ stage = "rewritten"
    /\ patterns' = detectPatterns(input)
    /\ stage' = "detected"
    /\ UNCHANGED <<input, latex, relatex, inlined, appVars>>

NextRewrite == CallProcessToLatex \/ CallProcessToLatexAgain

NextCompare == CallProcessToLatex \/ CallProcessInput

NextDetect == CallProcessToLatex \/ CallDetectPatterns

SpecIdempotence ==
    InitCalls(Words(StructuralChunks, MaxStructural)) /\ [][NextRewrite]_vars

SpecDetector ==
    InitCalls(Words(StructuralChunks, MaxStructural)) /\ [][NextDetect]_vars

SpecGreek == InitCalls(Words(GreekChunks, MaxChunks)) /\ [][NextRewrite]_vars

SpecEinstein == InitCalls(Words(EinsteinChunks, MaxChunks)) /\ [][NextDetect]_vars

SpecSchrodinger ==
    InitCalls(Words(SchrodingerChunks, MaxChunks)) /\ [][NextRewrite]_vars

SpecMaxwell == InitCalls(Words(MaxwellChunks, MaxChunks)) /\ [][NextCompare]_vars

-----------------------------------------------------------------------------
(* The App component's state. *)

\* useState('') three times; the effect runs once after the first render
Init ==
    /\ inputText = <<>>
    /\ latexOutput = <<>>
    /\ mathmlOutput = <<>>
    /\ effectPending = TRUE
    /\ input = <<>>
    /\ stage = "input"
    /\ latex = <<>>
    /\ relatex = <<>>
    /\ inlined = <<>>
    /\ patterns = noPatterns

\* onChange of the textarea: setInputText(e.target.value); the effect is
\* scheduled when the value differs from the current one
OnChange ==
    \E v \in Words(TypedChunks, MaxTyped) :
        /\ inputText' = v
        /\ effectPending' = (effectPending \/ v # inputText)
        /\ UNCHANGED <<latexOutput, mathmlOutput, callVars>>

\* the Clear button, rendered only while latexOutput is non-empty
ClickClear ==
    /\ latexOutput # <<>>
    /\ inputText' = <<>>
    /\ effectPending' = (effectPending \/ inputText # <<>>)
    /\ UNCHANGED <<latexOutput, mathmlOutput, callVars>>

\* setLatexOutput(latex); setMathmlOutput(generateMathML(latex))
SetOutputs(l) ==
    /\ latexOutput' = l
    /\ mathmlOutput' = generateMathML(l)

\* a variant of the effect without the else branch: on an empty inputText it
\* leaves both outputs as they are
InputEffectStale ==
    /\ effectPending
    /\ IF inputText # <<>>
       THEN SetOutputs(processInput(inputText))
       ELSE UNCHANGED <<latexOutput, mathmlOutput>>
    /\ effectPending' = FALSE
    /\ UNCHANGED <<inputText, callVars>>

\* useEffect(..., [inputText])
InputEffect ==
    /\ effectPending
    /\ IF inputText # <<>>
       THEN SetOutputs(processInput(inputText))
       ELSE /\ latexOutput' = <<>>
            /\ mathmlOutput' = <<>>
    /\ effectPending' = FALSE
    /\ UNCHANGED <<inputText, callVars>>

Next == OnChange \/ ClickClear \/ InputEffect

Spec == Init /\ [][Next]_vars

-----------------------------------------------------------------------------
(* Properties. *)

\* the number of indices of s where the literal lit occurs
Occurrences(s, lit) == Cardinality({i \in 1..Len(s) : StartsWithAt(s, i, lit)})

\* the number of indices of s where the expression of rule matches
Matches(s, rule) == Cardinality({i \in 1..Len(s) : MatchEnd(rule, s, i) > 0})

\* C1: once processToLatex has run on an input that holds G, μν and Λ, its
\* output holds G_{\mu\nu}, holds \Lambda g_{\mu\nu} when the input has Λg
\* followed by the μν index, and holds T_{\mu\nu} when the input has T
\* followed by the μν index.
C1_EinsteinOutput ==
    (stage # "input" /\ EinsteinGuard(input)) =>
        /\ Includes(latex, einsteinRules[1].to)
        /\ Test(input, einsteinRules[2]) => Includes(latex, einsteinRules[2].to)
        /\ Test(input, einsteinRules[3]) => Includes(latex, einsteinRules[3].to)

\* C2: once processToLatex has run on an input that holds both Ψ and ħ, none
\* of iħ, ∂Ψ/∂t and ∇^2 remains in the output, and each of them that the
\* input held has left its LaTeX form there.
C2_SchrodingerRewritten ==
    (stage # "input" /\ SchrodingerGuard(input)) =>
        \A k \in 1..Len(schrodingerRules) :
            /\ ~Includes(latex, schrodingerRules[k].lit)
            /\ Includes(input, schrodingerRules[k].lit)
                   => Includes(latex, schrodingerRules[k].to)

\* C3: for each of the four divergence and curl expressions, the output of
\* processToLatex holds its LaTeX form once for every match in the input, and
\* no match of it is left, whatever follows the field letter.
C3_MaxwellEveryOccurrence ==
    stage # "input" =>
        \A k \in 1..Len(maxwellRules) :
            /\ Occurrences(latex, maxwellRules[k].to) = Matches(input, maxwellRules[k])
            /\ ~Test(latex, maxwellRules[k])

\* the table entries whose expression matches s at index i: at most one, the
\* names and the glyphs being pairwise different
EntriesAt(s, i) ==
    {k \in 1..Len(greekLetters) : GreekMatchEnd(s, i, greekLetters[k]) > 0}

\* every whole-word name and every glyph of s replaced by its command, all
\* occurrences being taken in s itself, from index i on
RECURSIVE CommandsFrom(_, _, _)

\* k is the entry that matches at index m
CommandFor(s, i, acc, m, k) ==
    CommandsFrom(s, GreekMatchEnd(s, m, greekLetters[k]),
        acc \o SubSeq(s, i, m - 1) \o GreekReplacement(greekLetters[k]))

\* m is the next index where some entry matches, 0 when there is none
CommandAt(s, i, acc, m) ==
    IF m = 0 THEN acc \o SubSeq(s, i, Len(s))
    ELSE CommandFor(s, i, acc, m, CHOOSE k \in EntriesAt(s, m) : TRUE)

CommandsFrom(s, i, acc) ==
    CommandAt(s, i, acc, LeastOrZero({j \in i..Len(s) : EntriesAt(s, j) # {}}))

EveryOccurrenceReplaced(s) ==
    IF Len(s) = 0 THEN s ELSE CommandsFrom(s, 1, <<>>)

\* C4: on a text of Greek names, glyphs and separators, the output of
\* processToLatex is the input with every whole-word name (in any letter
\* case) and every glyph replaced by one backslash and the lowercase name.
C4_GreekEveryOccurrence ==
    stage # "input" => latex = EveryOccurrenceReplaced(input)

\* some table name occurs in s as a substring, in any letter case
HasGreekName(s) ==
    \E k \in 1..Len(greekLetters) : \E i \in 1..Len(s) :
        /\ i + Len(greekLetters[k].name) - 1 <= Len(s)
        /\ \A j \in 1..Len(greekLetters[k].name) :
               Canonicalize(s[i + j - 1]) = Canonicalize(greekLetters[k].name[j])

\* some unit of s is a glyph to the Greek pass: a table glyph, its capital, or
\* a character that Canonicalize sends onto one of them (the micro sign)
HasGreekGlyph(s) ==
    \E i \in 1..Len(s) : \E k \in 1..Len(greekLetters) :
        Canonicalize(s[i]) = Canonicalize(greekLetters[k].symbol)

\* μ ν Λ Ψ ħ ∇
HasTrigger(s) == \E i \in 1..Len(s) : s[i] \in {956, 957, 923, 936, 295, 8711}

\* C5: on an input without Greek name, Greek glyph and equation trigger,
\* processToLatex applied to its own output returns that output unchanged.
C5_Idempotent ==
    (/\ stage = "rewrittenTwice"
     /\ ~HasGreekGlyph(input)
     /\ ~HasTrigger(input)
     /\ ~HasGreekName(input)) => relatex = latex

\* x_2^2 has been rewritten to x_{2}^2, and rewritten again to the same text
C5_Witness ==
    /\ stage = "rewrittenTwice"
    /\ input = <<120, 95, 50, 94, 50>>
    /\ latex = <<120, 95, 123, 50, 125, 94, 50>>
    /\ relatex = latex

\* C6: processToLatex leaves a backslash-prefixed name as it is, and on a text
\* of Greek names, glyphs and separators a second application returns the
\* output of the first.
C6_GreekFixedPoint ==
    /\ (/\ stage # "input"
        /\ \E k \in 1..Len(greekLetters) : input = GreekReplacement(greekLetters[k]))
           => latex = input
    /\ stage = "rewrittenTwice" => relatex = latex

\* the tokens of chain occur in s from index i on in their order, with any
\* text at all between them, line breaks included
RECURSIVE InOrderFrom(_, _, _, _)

\* at holds the indices where chain[k] can start
InOrderRest(s, chain, k, at) ==
    IF at = {} THEN FALSE
    ELSE InOrderFrom(s, Least(at) + TokenLen(chain[k]), chain, k + 1)

InOrderFrom(s, i, chain, k) ==
    IF k > Len(chain) THEN TRUE
    ELSE InOrderRest(s, chain, k, {j \in i..Len(s) : TokenAt(s, j, chain[k])})

\* C7: isEinsteinEquation is true exactly when the input holds G, μν, Λ, g,
\* μν, T, μν in this order with any text between them, on one line or on
\* several.
C7_EinsteinOrderOnly ==
    stage = "detected" =>
        (patterns.isEinsteinEquation <=> InOrderFrom(input, 1, einsteinChain, 1))

\* C8: processInput of the App component and processToLatex return the same
\* string on the same input.
C8_SameOutput == stage = "inlined" => inlined = latex

\* C9: each structural flag of detectPatterns is true exactly when the pass of
\* that name changes the text it receives while processToLatex runs on the
\* same input.
C9_FlagsAgreeWithPasses ==
    stage = "detected" =>
        /\ patterns.hasSubscripts <=> (SubscriptPass(input) # input)
        /\ patterns.hasSuperscripts <=>
               (SuperscriptPass(SubscriptPass(input)) # SubscriptPass(input))
        /\ patterns.hasFractions <=>
               (FractionPass(SuperscriptPass(SubscriptPass(input)))
                    # SuperscriptPass(SubscriptPass(input)))

\* C10: once the effect has run for the current inputText, the outputs are
\* processInput(inputText) and generateMathML(latexOutput) for a non-empty
\* inputText, both empty for an empty one, and latexOutput is empty exactly
\* when inputText is.
C10_OutputsFollowInput ==
    ~effectPending =>
        /\ inputText # <<>> =>
               /\ latexOutput = processInput(inputText)
               /\ mathmlOutput = generateMathML(latexOutput)
        /\ inputText = <<>> => (latexOutput = <<>> /\ mathmlOutput = <<>>)
        /\ (latexOutput = <<>>) <=> (inputText = <<>>)

\* the effect has run on a typed text that the rewriter changed
C10_Witness ==
    /\ ~effectPending
    /\ inputText # <<>>
    /\ latexOutput # <<>>
    /\ latexOutput # inputText

====
